---- MODULE Spec2Model ----
(***************************************************************************)
(* The Game of Life on the micro:bit LED matrix, in its three builds:      *)
(*   "simple"  src/src/main.rs             free-running blocking loop      *)
(*   "gpio"    src/gpio_interrupt/main.rs  edge-triggered buttons (GPIOTE) *)
(*   "timer"   src/timer_interrupt/main.rs polled buttons (RTC0), periodic *)
(*                                         advance (RTC1), display (TIMER0)*)
(* A critical section (cortex_m::interrupt::free) runs with interrupts     *)
(* disabled, and all interrupt sources share one priority, so every        *)
(* critical section and every handler is one atomic action.                *)
(***************************************************************************)
EXTENDS Integers, Sequences, FiniteSets, TLC

\* ------------------------------------------------------------------ bounds
\* Cap on the number of next_state invocations followed in one behaviour.
MaxGen == 4

\* Cap on the presses of one button followed between two GPIOTE runs.
MaxPress == 2

\* Cap on the number of MyBoard::take calls followed in one behaviour.
MaxTakes == 3

\* --------------------------------------------------------------- constants
\* Side of the LED matrix: `[[bool; 5]; 5]`.
N == 5

Idx == 0 .. (N - 1)
PadIdx == 0 .. (N + 1)

Variants == {"simple", "gpio", "timer"}

\* The peripheral handles kept in Mutex<RefCell<Option<_>>> statics.
CellNames == {"GPIO", "BUTTON_COUNTER", "DISPLAY_COUNTER",
              "BUTTON_A", "BUTTON_B", "DISPLAY"}

VARIABLES
    variant,               \* which of the three builds is running
    pc,                    \* position of main(): "boot", "start", "cs1", "loop",
                           \* and "shown" between the loop's show and advance
    halted,                \* the panic handler has been entered
    unmasked,              \* NVIC::unmask has been executed
    cell,                  \* cell[n]: the peripheral static n holds Some
    GAME_STATE,            \* Option<LifeState>
    PAUSED,                \* the pause flag
    BUTTON_A_WAS_PRESSED,  \* polled variant: latch of button a
    BUTTON_B_WAS_PRESSED,  \* polled variant: latch of button b
    chan0_event,           \* GPIOTE channel 0 event register (button a)
    chan1_event,           \* GPIOTE channel 1 event register (button b)
    a_low,                 \* physical level of button a (low = pressed)
    b_low,                 \* physical level of button b
    image,                 \* the image last handed to the display
    rendered,              \* history: the current generation has been shown
    gen,                   \* history: number of next_state invocations
    runTicks,              \* history: advance ticks fired while not paused
    manual,                \* history: button-b edges evaluated while paused
    sampleA,               \* history: raw level of a at the last RTC0 run
    sampleB,               \* history: raw level of b at the last RTC0 run
    last,                  \* history: what the last step did
    pendA,                 \* history: presses of a since the last GPIOTE run
    pendB,                 \* history: presses of b since the last GPIOTE run
    peripherals_taken,     \* the flag behind pac::Peripherals::take()
    take_log,              \* history: result (is Some) of each MyBoard::take
    in_cs,                 \* main() is inside interrupt::free (interrupts off)
    render_paused,         \* history: PAUSED when the loop last rendered
    b_held_since_running,  \* history: b is held, without a release, since an
                           \* RTC0 run sampled its press while Running
    borrow_flag,           \* borrow_flag[c]: borrow state of RefCell c
                           \* (0 unused, n > 0 shared borrows, -1 borrowed mutably)
    borrow_panicked        \* a borrow has panicked ("already borrowed")

vars == <<variant, pc, halted, unmasked, cell, GAME_STATE, PAUSED,
          BUTTON_A_WAS_PRESSED, BUTTON_B_WAS_PRESSED, chan0_event,
          chan1_event, a_low, b_low, image, rendered, gen, runTicks, manual,
          sampleA, sampleB, last, pendA, pendB, peripherals_taken, take_log,
          in_cs, render_paused, b_held_since_running, borrow_flag,
          borrow_panicked>>

\* The borrow state of the RefCells.
borrowVars == <<borrow_flag, borrow_panicked>>

\* The state of a critical section of main() that is followed step by step.
csVars == <<in_cs, render_paused>>

\* The singleton flag and the record of the calls that consulted it.
takeVars == <<peripherals_taken, take_log>>

\* The presses a GPIOTE run has not yet consumed (gpio build only).
pendVars == <<pendA, pendB>>

\* ------------------------------------------------------------ game_of_life
AllDead == [r \in Idx |-> [c \in Idx |-> FALSE]]

\* The literal `initial_state_matrix` of the three main() functions.
InitialRows ==
    << <<FALSE, FALSE, FALSE, FALSE, FALSE>>,
       <<FALSE, TRUE,  TRUE,  TRUE,  FALSE>>,
       <<TRUE,  TRUE,  TRUE,  FALSE, FALSE>>,
       <<FALSE, FALSE, FALSE, FALSE, FALSE>>,
       <<FALSE, FALSE, FALSE, FALSE, FALSE>> >>

initial_state_matrix == [r \in Idx |-> [c \in Idx |-> InitialRows[r + 1][c + 1]]]

\* A padding that wraps around the edges instead of padding with false.
padded_matrix_wrap(matrix) ==
    [i \in PadIdx |-> [j \in PadIdx |-> matrix[(i - 1) % N][(j - 1) % N]]]

\* The 7x7 copy of the matrix surrounded by false values.
padded_matrix(matrix) ==
    [i \in PadIdx |-> [j \in PadIdx |->
        IF i \in 1 .. N /\ j \in 1 .. N THEN matrix[i - 1][j - 1] ELSE FALSE]]

\* The eight positions around (new_target_row, new_target_col).
neighbors(new_target_row, new_target_col) ==
    << <<new_target_row - 1, new_target_col - 1>>,
       <<new_target_row - 1, new_target_col>>,
       <<new_target_row - 1, new_target_col + 1>>,
       <<new_target_row, new_target_col - 1>>,
       <<new_target_row, new_target_col + 1>>,
       <<new_target_row + 1, new_target_col - 1>>,
       <<new_target_row + 1, new_target_col>>,
       <<new_target_row + 1, new_target_col + 1>> >>

count_live_neighbors(matrix, target_row, target_col) ==
    LET padded == padded_matrix(matrix)
        nb == neighbors(target_row + 1, target_col + 1)
    IN  Cardinality({k \in 1 .. Len(nb) : padded[nb[k][1]][nb[k][2]]})

\* A rule under which a live cell never dies.
rule_keeps_alive(element, n_neighbors) == element \/ n_neighbors = 3

\* A rule under which a dead cell is also born with two neighbours.
rule_birth2(element, n_neighbors) == n_neighbors \in {2, 3}

\* The match of next_state on (element, n_neighbors).
rule(element, n_neighbors) ==
    \/ element /\ n_neighbors \in {2, 3}
    \/ ~element /\ n_neighbors = 3

next_state(matrix) ==
    [row_n \in Idx |-> [col_n \in Idx |->
        rule(matrix[row_n][col_n], count_live_neighbors(matrix, row_n, col_n))]]

\* `element as u8`
int_matrix(matrix) ==
    [r \in Idx |-> [c \in Idx |-> IF matrix[r][c] THEN 1 ELSE 0]]

\* The display before anything has been shown.
Blank == [r \in Idx |-> [c \in Idx |-> 0]]

\* ----------------------------------------------------------------- RefCell
\* Every static is a Mutex<RefCell<_>>.
RefCells == CellNames \cup {"GAME_STATE", "PAUSED", "BUTTON_A_WAS_PRESSED",
                            "BUTTON_B_WAS_PRESSED"}

\* The borrow operations a piece of code performs, in program order.
Borrow(c) == [op |-> "borrow", cell |-> c]
BorrowMut(c) == [op |-> "borrow_mut", cell |-> c]
Drop(c) == [op |-> "drop", cell |-> c]
DropMut(c) == [op |-> "drop_mut", cell |-> c]

\* `*X.borrow(cs).borrow()`: a shared borrow dropped with its expression.
Read(c) == <<Borrow(c), Drop(c)>>

\* `X.borrow(cs).replace(v)`, `.take()`, `.replace_with(f)` and
\* `*X.borrow(cs).borrow_mut() = v`: a mutable borrow dropped at once.
Momentary(c) == <<BorrowMut(c), DropMut(c)>>

\* borrow() panics on a cell borrowed mutably, borrow_mut() on a cell borrowed
\* in any way; the operations after a panic are not executed.
RECURSIVE RunBorrows(_, _)
RunBorrows(flags, ops) ==
    IF ops = << >> THEN [flags |-> flags, panicked |-> FALSE]
    ELSE LET o == Head(ops)
             f == flags[o.cell]
         IN  CASE o.op = "borrow" ->
                    IF f >= 0
                    THEN RunBorrows([flags EXCEPT ![o.cell] = f + 1], Tail(ops))
                    ELSE [flags |-> flags, panicked |-> TRUE]
               [] o.op = "borrow_mut" ->
                    IF f = 0
                    THEN RunBorrows([flags EXCEPT ![o.cell] = -1], Tail(ops))
                    ELSE [flags |-> flags, panicked |-> TRUE]
               [] o.op = "drop" ->
                    RunBorrows([flags EXCEPT ![o.cell] = f - 1], Tail(ops))
               [] o.op = "drop_mut" ->
                    RunBorrows([flags EXCEPT ![o.cell] = 0], Tail(ops))

\* ------------------------------------------------------------------ Option
None == [some |-> FALSE, matrix |-> AllDead]
Some(m) == [some |-> TRUE, matrix |-> m]

\* --------------------------------------------------------------- decisions
\* `if !*PAUSED.borrow(cs).borrow()` of the advance-and-render tick.
tick_advances_always(paused) == TRUE

tick_advances_never(paused) == FALSE

tick_advances(paused) == ~paused

\* `PAUSED.borrow(cs).replace(!PAUSED.borrow(cs).take())` and
\* `PAUSED.borrow(cs).replace_with(|&mut old_value| !old_value)`.
toggle_sets(paused) == TRUE

toggle(paused) == ~paused

\* `button_b_pressed && *PAUSED.borrow(cs).borrow()` and
\* `if *PAUSED.borrow(cs).borrow()` under the b-edge test.
step_applies(b_edge, paused) == b_edge /\ paused

\* A press test that looks at the level only and ignores the latch.
press_edge_level(raw, was_pressed) == raw

\* `!BUTTON_x_WAS_PRESSED.borrow(cs).replace(true)` under `if x_pressed`.
press_edge(raw, was_pressed) == raw /\ ~was_pressed

\* The value the latch holds after a sample: replace(true) / replace(false).
latch_after_sticky(raw, was_pressed) == raw \/ was_pressed

latch_after(raw, was_pressed) == raw

\* `gpiote.channel0().is_event_triggered()`, given both event registers.
button_a_triggered(c0, c1) == c0

\* `gpiote.channel1().is_event_triggered()`, given both event registers.
button_b_triggered_any(c0, c1) == c0 \/ c1

button_b_triggered(c0, c1) == c1

\* RTC0: `BitImage::new(&game_state.int_matrix())` after next_state().
rtc0_image_stale(old_matrix, new_matrix) == int_matrix(old_matrix)

\* An RTC0 step that clears the display instead of showing the new Grid.
rtc0_image_blank(old_matrix, new_matrix) == Blank

rtc0_image(old_matrix, new_matrix) == int_matrix(new_matrix)

\* RTC1: `BitImage::new(&game_state.int_matrix())` after next_state().
rtc1_image_stale(old_matrix, new_matrix) == int_matrix(old_matrix)

rtc1_image(old_matrix, new_matrix) == int_matrix(new_matrix)

Bit(b) == IF b THEN 1 ELSE 0

\* ------------------------------------------------------------------ history
\* handler: the action that made the last step; a_edge, b_edge: a press of
\* button a / b reached that handler (a latched GPIOTE event, or a raw sample
\* that is low after one that was not); steps, shows: how many times it
\* called next_state / display.show; skipped: it advanced a generation that
\* had never been shown.
Log(h, a, b, s, sh, sk) ==
    [handler |-> h, a_edge |-> a, b_edge |-> b, steps |-> s, shows |-> sh,
     skipped |-> sk]

NoLog == Log("none", FALSE, FALSE, 0, 0, FALSE)

\* ------------------------------------------------------------------- Init
\* The statics as initialised (None, false), with main() about to enter its
\* first critical section: in the gpio build both GPIOTE channels are already
\* configured and their events reset; in the simple build `state` is built.
\* The timer build starts one step earlier, at its call of MyBoard::take();
\* the other builds have taken the peripherals through Board::take().
\* The display shows nothing yet.
Init ==
    /\ variant \in Variants
    /\ pc = CASE variant = "simple" -> "loop"
              [] variant = "gpio" -> "start"
              [] variant = "timer" -> "boot"
    /\ halted = FALSE
    /\ unmasked = FALSE
    /\ cell = [n \in CellNames |-> FALSE]
    /\ GAME_STATE = IF variant = "simple" THEN Some(initial_state_matrix) ELSE None
    /\ PAUSED = FALSE
    /\ BUTTON_A_WAS_PRESSED = FALSE
    /\ BUTTON_B_WAS_PRESSED = FALSE
    /\ chan0_event = FALSE
    /\ chan1_event = FALSE
    /\ a_low = FALSE
    /\ b_low = FALSE
    /\ image = Blank
    /\ rendered = FALSE
    /\ gen = 0
    /\ runTicks = 0
    /\ manual = 0
    /\ sampleA = FALSE
    /\ sampleB = FALSE
    /\ last = NoLog
    /\ pendA = 0
    /\ pendB = 0
    /\ peripherals_taken = (variant # "timer")
    /\ take_log = << >>
    /\ in_cs = FALSE
    /\ render_paused = FALSE
    /\ b_held_since_running = FALSE
    /\ borrow_flag = [c \in RefCells |-> 0]
    /\ borrow_panicked = FALSE

\* ------------------------------------------------------------- environment
\* The GPIOTE channels are configured hi_to_lo with their interrupt enabled
\* before main() reaches its first critical section; a press latches the
\* channel's event register.
PressA ==
    /\ variant # "simple" /\ ~a_low
    /\ variant = "gpio" => pendA < MaxPress
    /\ pendA' = pendA + Bit(variant = "gpio")
    /\ UNCHANGED pendB
    /\ a_low' = TRUE
    /\ chan0_event' = (chan0_event \/ variant = "gpio")
    /\ last' = Log("env", FALSE, FALSE, 0, 0, FALSE)
    /\ UNCHANGED <<variant, pc, halted, unmasked, cell, GAME_STATE, PAUSED,
                   BUTTON_A_WAS_PRESSED, BUTTON_B_WAS_PRESSED, chan1_event,
                   b_low, image, rendered, gen, runTicks, manual, sampleA,
                   sampleB>>
    /\ UNCHANGED takeVars
    /\ UNCHANGED csVars
    /\ UNCHANGED b_held_since_running
    /\ UNCHANGED borrowVars

ReleaseA ==
    /\ variant # "simple" /\ a_low
    /\ a_low' = FALSE
    /\ last' = Log("env", FALSE, FALSE, 0, 0, FALSE)
    /\ UNCHANGED <<variant, pc, halted, unmasked, cell, GAME_STATE, PAUSED,
                   BUTTON_A_WAS_PRESSED, BUTTON_B_WAS_PRESSED, chan0_event,
                   chan1_event, b_low, image, rendered, gen, runTicks, manual,
                   sampleA, sampleB>>
    /\ UNCHANGED pendVars
    /\ UNCHANGED takeVars
    /\ UNCHANGED csVars
    /\ UNCHANGED b_held_since_running
    /\ UNCHANGED borrowVars

PressB ==
    /\ variant # "simple" /\ ~b_low
    /\ variant = "gpio" => pendB < MaxPress
    /\ pendB' = pendB + Bit(variant = "gpio")
    /\ UNCHANGED pendA
    /\ b_low' = TRUE
    /\ chan1_event' = (chan1_event \/ variant = "gpio")
    /\ last' = Log("env", FALSE, FALSE, 0, 0, FALSE)
    /\ UNCHANGED <<variant, pc, halted, unmasked, cell, GAME_STATE, PAUSED,
                   BUTTON_A_WAS_PRESSED, BUTTON_B_WAS_PRESSED, chan0_event,
                   a_low, image, rendered, gen, runTicks, manual, sampleA,
                   sampleB>>
    /\ UNCHANGED takeVars
    /\ UNCHANGED csVars
    /\ UNCHANGED b_held_since_running
    /\ UNCHANGED borrowVars

ReleaseB ==
    /\ variant # "simple" /\ b_low
    /\ b_low' = FALSE
    /\ last' = Log("env", FALSE, FALSE, 0, 0, FALSE)
    /\ UNCHANGED <<variant, pc, halted, unmasked, cell, GAME_STATE, PAUSED,
                   BUTTON_A_WAS_PRESSED, BUTTON_B_WAS_PRESSED, chan0_event,
                   chan1_event, a_low, image, rendered, gen, runTicks, manual,
                   sampleA, sampleB>>
    /\ UNCHANGED pendVars
    /\ UNCHANGED takeVars
    /\ UNCHANGED csVars
    /\ b_held_since_running' = FALSE
    /\ UNCHANGED borrowVars

\* A critical section that leaves the interrupts on.
interrupts_always_enabled(inside) == TRUE

\* cortex_m::interrupt::free runs its closure with interrupts disabled: no
\* handler is entered while main() is inside one.
interrupts_enabled(inside) == ~inside

\* The GPIOTE interrupt line is asserted while an enabled event is latched;
\* the handler is entered as soon as interrupts are enabled and it is unmasked.
GPIOTE_pending == variant = "gpio" /\ unmasked /\ (chan0_event \/ chan1_event)

\* The history counters stay within the bound: a handler that could advance
\* the Grid is followed only while fewer than MaxGen generations were made.
Bounded == gen < MaxGen /\ runTicks < MaxGen /\ manual < MaxGen

\* A piece of code runs its borrow operations; a panic halts the program.
Borrowing(ops) ==
    /\ ~borrow_panicked
    /\ LET r == RunBorrows(borrow_flag, ops)
       IN  /\ borrow_flag' = r.flags
           /\ borrow_panicked' = r.panicked

\* A toggle that reads the flag through a shared borrow still live when
\* replace borrows mutably: `X.replace(!*X.borrow(cs).borrow())`.
toggle_borrows_overlapping(c) == <<Borrow(c)>> \o Momentary(c) \o <<Drop(c)>>

\* `PAUSED.borrow(cs).replace(!PAUSED.borrow(cs).take())`: take() has
\* returned before replace() borrows.
toggle_borrows(c) == Momentary(c) \o Momentary(c)

\* gpio main(): `*GPIO.borrow(cs).borrow_mut() = Some(gpiote)`.
gpio_main_cs1_borrows == Momentary("GPIO")

\* gpio main(): `*GAME_STATE.borrow(cs).borrow_mut() = Some(..)`.
gpio_main_cs2_borrows == Momentary("GAME_STATE")

\* gpio loop: `if let Some(state) = GAME_STATE.borrow(cs).borrow_mut().as_mut()`
\* holds the mutable borrow for the whole body.
gpio_loop_enter_borrows == <<BorrowMut("GAME_STATE")>>

\* gpio loop: `!*PAUSED.borrow(cs).borrow()` in the body, then the end of the
\* `if let`.
gpio_loop_exit_borrows(state_some) ==
    (IF state_some THEN Read("PAUSED") ELSE << >>) \o <<DropMut("GAME_STATE")>>

gpio_loop_borrows(state_some) ==
    gpio_loop_enter_borrows \o gpio_loop_exit_borrows(state_some)

\* GPIOTE: GPIO is borrowed for the body; the toggle; the read of PAUSED
\* behind `button_b_pressed &&`; the mutable borrow of GAME_STATE for the
\* step, never dropped when unwrap panics.
GPIOTE_borrows(gpio_some, button_a_pressed, button_b_pressed, paused, state_some) ==
    LET paused1 == IF button_a_pressed THEN toggle(paused) ELSE paused
    IN  IF ~gpio_some THEN Read("GPIO")
        ELSE <<Borrow("GPIO")>>
             \o (IF button_a_pressed THEN toggle_borrows("PAUSED") ELSE << >>)
             \o (IF button_b_pressed THEN Read("PAUSED") ELSE << >>)
             \o (IF step_applies(button_b_pressed, paused1)
                 THEN IF state_some
                      THEN Momentary("GAME_STATE") \o <<Drop("GPIO")>>
                      ELSE <<BorrowMut("GAME_STATE")>>
                 ELSE <<Drop("GPIO")>>)

\* timer main(): the six `.replace(Some(..))` of the startup section.
timer_main_cs_borrows ==
    Momentary("BUTTON_COUNTER") \o Momentary("DISPLAY_COUNTER")
    \o Momentary("BUTTON_A") \o Momentary("BUTTON_B")
    \o Momentary("DISPLAY") \o Momentary("GAME_STATE")

\* TIMER0: `if let Some(display) = DISPLAY.borrow(cs).borrow_mut().as_mut()`.
TIMER0_borrows == Momentary("DISPLAY")

\* One button of RTC0: the button's cell is borrowed for the body, the latch
\* is replaced, and `on_edge` runs on a press edge.
button_borrows(button, latch, button_some, pressed, was_pressed, on_edge) ==
    <<Borrow(button)>>
    \o (IF button_some
        THEN Momentary(latch)
             \o (IF press_edge(pressed, was_pressed) THEN on_edge ELSE << >>)
        ELSE << >>)
    \o <<Drop(button)>>

\* RTC0: button a (replace_with on PAUSED on its edge), button b (on its
\* edge the read of PAUSED and, if paused, GAME_STATE borrowed mutably around
\* DISPLAY borrowed mutably), then BUTTON_COUNTER.
RTC0_borrows(a_some, a_pressed, a_was, b_some, b_pressed, b_was, paused, gs) ==
    LET a_edge == a_some /\ press_edge(a_pressed, a_was)
        paused1 == IF a_edge THEN toggle(paused) ELSE paused
        step == <<BorrowMut("GAME_STATE")>>
                \o (IF gs THEN Momentary("DISPLAY") ELSE << >>)
                \o <<DropMut("GAME_STATE")>>
    IN  button_borrows("BUTTON_A", "BUTTON_A_WAS_PRESSED", a_some, a_pressed,
                       a_was, Momentary("PAUSED"))
        \o button_borrows("BUTTON_B", "BUTTON_B_WAS_PRESSED", b_some, b_pressed,
                          b_was,
                          Read("PAUSED") \o (IF paused1 THEN step ELSE << >>))
        \o Momentary("BUTTON_COUNTER")

\* RTC1: DISPLAY borrowed mutably around GAME_STATE borrowed mutably around
\* the read of PAUSED, then DISPLAY_COUNTER.
RTC1_borrows(display_some, state_some) ==
    <<BorrowMut("DISPLAY")>>
    \o (IF display_some
        THEN <<BorrowMut("GAME_STATE")>>
             \o (IF state_some THEN Read("PAUSED") ELSE << >>)
             \o <<DropMut("GAME_STATE")>>
        ELSE << >>)
    \o <<DropMut("DISPLAY")>>
    \o Momentary("DISPLAY_COUNTER")

\* ------------------------------------------------------- src/src/main.rs
\* loop { display.show(.., state.int_matrix(), 1500); state.next_state(); }
simple_main_loop ==
    /\ variant = "simple" /\ pc = "loop" /\ ~halted /\ Bounded
    /\ image' = int_matrix(GAME_STATE.matrix)
    /\ GAME_STATE' = Some(next_state(GAME_STATE.matrix))
    /\ rendered' = FALSE
    /\ gen' = gen + 1
    /\ runTicks' = runTicks + 1
    /\ last' = Log("main", FALSE, FALSE, 1, 1, FALSE)
    /\ UNCHANGED <<variant, pc, halted, unmasked, cell, PAUSED,
                   BUTTON_A_WAS_PRESSED, BUTTON_B_WAS_PRESSED, chan0_event,
                   chan1_event, a_low, b_low, manual, sampleA, sampleB>>
    /\ UNCHANGED pendVars
    /\ UNCHANGED takeVars
    /\ UNCHANGED csVars
    /\ UNCHANGED b_held_since_running
    /\ Borrowing(<< >>)

\* ---------------------------------------------- src/gpio_interrupt/main.rs
\* First critical section of main(): unmask GPIOTE, unpend, GPIO = Some.
gpio_main_cs1 ==
    /\ variant = "gpio" /\ pc = "start" /\ ~halted
    /\ pc' = "cs1"
    /\ unmasked' = TRUE
    /\ cell' = [cell EXCEPT !["GPIO"] = TRUE]
    /\ last' = Log("startup", FALSE, FALSE, 0, 0, FALSE)
    /\ UNCHANGED <<variant, halted, GAME_STATE, PAUSED, BUTTON_A_WAS_PRESSED,
                   BUTTON_B_WAS_PRESSED, chan0_event, chan1_event, a_low,
                   b_low, image, rendered, gen, runTicks, manual, sampleA,
                   sampleB>>
    /\ UNCHANGED pendVars
    /\ UNCHANGED takeVars
    /\ UNCHANGED csVars
    /\ UNCHANGED b_held_since_running
    /\ Borrowing(gpio_main_cs1_borrows)

\* Second critical section of main(): GAME_STATE = Some(initial). Interrupts
\* are enabled between the two sections, so a pending GPIOTE runs first.
gpio_main_cs2 ==
    /\ variant = "gpio" /\ pc = "cs1" /\ ~halted /\ ~GPIOTE_pending
    /\ pc' = "loop"
    /\ GAME_STATE' = Some(initial_state_matrix)
    /\ last' = Log("startup", FALSE, FALSE, 0, 0, FALSE)
    /\ UNCHANGED <<variant, halted, unmasked, cell, PAUSED,
                   BUTTON_A_WAS_PRESSED, BUTTON_B_WAS_PRESSED, chan0_event,
                   chan1_event, a_low, b_low, image, rendered, gen, runTicks,
                   manual, sampleA, sampleB>>
    /\ UNCHANGED pendVars
    /\ UNCHANGED takeVars
    /\ UNCHANGED csVars
    /\ UNCHANGED b_held_since_running
    /\ Borrowing(gpio_main_cs2_borrows)

\* One iteration of the loop of main(): show the state, then advance it
\* unless paused, all inside one critical section.
gpio_main_loop ==
    /\ variant = "gpio" /\ pc = "loop" /\ ~halted /\ ~GPIOTE_pending /\ Bounded
    /\ IF GAME_STATE.some
       THEN LET adv == tick_advances(PAUSED)
            IN  /\ image' = int_matrix(GAME_STATE.matrix)
                /\ GAME_STATE' = IF adv THEN Some(next_state(GAME_STATE.matrix))
                                        ELSE GAME_STATE
                /\ rendered' = ~adv
                /\ gen' = gen + Bit(adv)
                /\ runTicks' = runTicks + Bit(~PAUSED)
                /\ last' = Log("main", FALSE, FALSE, Bit(adv), 1, FALSE)
       ELSE /\ last' = Log("main", FALSE, FALSE, 0, 0, FALSE)
            /\ UNCHANGED <<image, GAME_STATE, rendered, gen, runTicks>>
    /\ UNCHANGED <<variant, pc, halted, unmasked, cell, PAUSED,
                   BUTTON_A_WAS_PRESSED, BUTTON_B_WAS_PRESSED, chan0_event,
                   chan1_event, a_low, b_low, manual, sampleA, sampleB>>
    /\ UNCHANGED pendVars
    /\ UNCHANGED takeVars
    /\ UNCHANGED csVars
    /\ UNCHANGED b_held_since_running
    /\ Borrowing(gpio_loop_borrows(GAME_STATE.some))

\* The same iteration in two steps. First: enter the critical section and
\* show the state (`display.show(&mut timer, state.int_matrix(), 1500)`).
gpio_loop_enter_show ==
    /\ variant = "gpio" /\ pc = "loop" /\ ~halted /\ ~GPIOTE_pending /\ Bounded
    /\ ~in_cs
    /\ in_cs' = TRUE
    /\ pc' = "shown"
    /\ render_paused' = PAUSED
    /\ IF GAME_STATE.some
       THEN /\ image' = int_matrix(GAME_STATE.matrix)
            /\ rendered' = TRUE
            /\ last' = Log("main_show", FALSE, FALSE, 0, 1, FALSE)
       ELSE /\ last' = Log("main_show", FALSE, FALSE, 0, 0, FALSE)
            /\ UNCHANGED <<image, rendered>>
    /\ UNCHANGED <<variant, halted, unmasked, cell, GAME_STATE, PAUSED,
                   BUTTON_A_WAS_PRESSED, BUTTON_B_WAS_PRESSED, chan0_event,
                   chan1_event, a_low, b_low, gen, runTicks, manual, sampleA,
                   sampleB>>
    /\ UNCHANGED <<pendVars, takeVars>>
    /\ UNCHANGED b_held_since_running
    /\ Borrowing(gpio_loop_enter_borrows)

\* Second: advance the state unless paused, and leave the critical section.
gpio_loop_advance_exit ==
    /\ variant = "gpio" /\ pc = "shown" /\ ~halted
    /\ in_cs' = FALSE
    /\ pc' = "loop"
    /\ IF GAME_STATE.some
       THEN LET adv == tick_advances(PAUSED)
            IN  /\ GAME_STATE' = IF adv THEN Some(next_state(GAME_STATE.matrix))
                                        ELSE GAME_STATE
                /\ rendered' = (rendered /\ ~adv)
                /\ gen' = gen + Bit(adv)
                /\ runTicks' = runTicks + Bit(~PAUSED)
                /\ last' = Log("main", FALSE, FALSE, Bit(adv), 0, FALSE)
       ELSE /\ last' = Log("main", FALSE, FALSE, 0, 0, FALSE)
            /\ UNCHANGED <<GAME_STATE, rendered, gen, runTicks>>
    /\ UNCHANGED <<variant, halted, unmasked, cell, PAUSED,
                   BUTTON_A_WAS_PRESSED, BUTTON_B_WAS_PRESSED, chan0_event,
                   chan1_event, a_low, b_low, image, manual, sampleA, sampleB,
                   render_paused>>
    /\ UNCHANGED <<pendVars, takeVars>>
    /\ UNCHANGED b_held_since_running
    /\ Borrowing(gpio_loop_exit_borrows(GAME_STATE.some))

\* The GPIOTE handler: toggle on the channel 0 event, step on the channel 1
\* event if paused (unwrap of GAME_STATE panics on None), reset both events.
GPIOTE ==
    /\ GPIOTE_pending /\ ~halted /\ Bounded /\ interrupts_enabled(in_cs)
    /\ IF cell["GPIO"]
       THEN LET button_a_pressed == button_a_triggered(chan0_event, chan1_event)
                button_b_pressed == button_b_triggered(chan0_event, chan1_event)
                paused1 == IF button_a_pressed THEN toggle(PAUSED) ELSE PAUSED
                step == step_applies(button_b_pressed, paused1)
            IN  /\ PAUSED' = paused1
                /\ IF step /\ ~GAME_STATE.some
                   THEN /\ halted' = TRUE
                        /\ last' = Log("GPIOTE", chan0_event, chan1_event,
                                       0, 0, FALSE)
                        /\ UNCHANGED <<GAME_STATE, chan0_event, chan1_event,
                                       rendered, gen, manual, pendVars>>
                   ELSE /\ GAME_STATE' = IF step THEN Some(next_state(GAME_STATE.matrix))
                                                 ELSE GAME_STATE
                        /\ rendered' = (rendered /\ ~step)
                        /\ gen' = gen + Bit(step)
                        /\ manual' = manual + Bit(chan1_event /\ paused1)
                        /\ chan0_event' = FALSE
                        /\ chan1_event' = FALSE
                        /\ pendA' = 0
                        /\ pendB' = 0
                        /\ last' = Log("GPIOTE", chan0_event, chan1_event,
                                       Bit(step), 0, step /\ ~rendered)
                        /\ UNCHANGED halted
       ELSE /\ last' = Log("GPIOTE", FALSE, FALSE, 0, 0, FALSE)
            /\ UNCHANGED <<PAUSED, halted, GAME_STATE, chan0_event,
                           chan1_event, rendered, gen, manual, pendVars>>
    /\ UNCHANGED <<variant, pc, unmasked, cell, BUTTON_A_WAS_PRESSED,
                   BUTTON_B_WAS_PRESSED, a_low, b_low, image, runTicks,
                   sampleA, sampleB>>
    /\ UNCHANGED takeVars
    /\ UNCHANGED csVars
    /\ UNCHANGED b_held_since_running
    /\ Borrowing(GPIOTE_borrows(cell["GPIO"],
                                button_a_triggered(chan0_event, chan1_event),
                                button_b_triggered(chan0_event, chan1_event),
                                PAUSED, GAME_STATE.some))

\* --------------------------------------------- src/timer_interrupt/main.rs
\* ------------------------------------------ src/timer_interrupt/my_board.rs
\* pac::Peripherals::take(): Some the first time only; sets the flag.
Peripherals_take(taken) == [some |-> ~taken, taken |-> TRUE]

\* A take that hands out the board whatever the flag says.
MyBoard_take_steal(taken) == [some |-> TRUE, taken |-> TRUE]

\* MyBoard::take(): Some(Self {..}) on Some(peripherals), None on None.
MyBoard_take(taken) ==
    LET p == Peripherals_take(taken)
    IN  IF p.some THEN [some |-> TRUE, taken |-> p.taken]
                  ELSE [some |-> FALSE, taken |-> p.taken]

\* `let board = MyBoard::take().unwrap();` at the top of main().
timer_main_take ==
    /\ variant = "timer" /\ pc = "boot" /\ ~halted
    /\ Len(take_log) < MaxTakes
    /\ LET r == MyBoard_take(peripherals_taken)
       IN  /\ peripherals_taken' = r.taken
           /\ take_log' = Append(take_log, r.some)
           /\ pc' = IF r.some THEN "start" ELSE pc
           /\ halted' = ~r.some
    /\ last' = Log("startup", FALSE, FALSE, 0, 0, FALSE)
    /\ UNCHANGED <<variant, unmasked, cell, GAME_STATE, PAUSED,
                   BUTTON_A_WAS_PRESSED, BUTTON_B_WAS_PRESSED, chan0_event,
                   chan1_event, a_low, b_low, image, rendered, gen, runTicks,
                   manual, sampleA, sampleB>>
    /\ UNCHANGED pendVars
    /\ UNCHANGED csVars
    /\ UNCHANGED b_held_since_running
    /\ Borrowing(<< >>)

\* A further call of MyBoard::take(), made at any point after main()'s own.
take_call ==
    /\ variant = "timer" /\ pc # "boot" /\ ~halted
    /\ Len(take_log) < MaxTakes
    /\ LET r == MyBoard_take(peripherals_taken)
       IN  /\ peripherals_taken' = r.taken
           /\ take_log' = Append(take_log, r.some)
    /\ last' = Log("take", FALSE, FALSE, 0, 0, FALSE)
    /\ UNCHANGED <<variant, pc, halted, unmasked, cell, GAME_STATE, PAUSED,
                   BUTTON_A_WAS_PRESSED, BUTTON_B_WAS_PRESSED, chan0_event,
                   chan1_event, a_low, b_low, image, rendered, gen, runTicks,
                   manual, sampleA, sampleB>>
    /\ UNCHANGED pendVars
    /\ UNCHANGED csVars
    /\ UNCHANGED b_held_since_running
    /\ Borrowing(<< >>)

\* --------------------------------------------- src/timer_interrupt/main.rs
\* A startup section that unmasks the interrupts but leaves GAME_STATE for
\* later.
timer_main_cs_late_state ==
    /\ variant = "timer" /\ pc = "start" /\ ~halted
    /\ pc' = "loop"
    /\ unmasked' = TRUE
    /\ cell' = [n \in CellNames |-> n # "GPIO"]
    /\ last' = Log("startup", FALSE, FALSE, 0, 0, FALSE)
    /\ UNCHANGED <<variant, halted, GAME_STATE, PAUSED, BUTTON_A_WAS_PRESSED,
                   BUTTON_B_WAS_PRESSED, chan0_event, chan1_event, a_low,
                   b_low, image, rendered, gen, runTicks, manual, sampleA,
                   sampleB>>
    /\ UNCHANGED pendVars
    /\ UNCHANGED takeVars
    /\ UNCHANGED csVars
    /\ UNCHANGED b_held_since_running
    /\ Borrowing(timer_main_cs_borrows)

\* The one critical section of main(): unmask RTC0, RTC1 and TIMER0, unpend
\* them, and fill the six statics. main() then idles in `loop {}`.
timer_main_cs ==
    /\ variant = "timer" /\ pc = "start" /\ ~halted
    /\ pc' = "loop"
    /\ unmasked' = TRUE
    /\ cell' = [n \in CellNames |-> n # "GPIO"]
    /\ GAME_STATE' = Some(initial_state_matrix)
    /\ last' = Log("startup", FALSE, FALSE, 0, 0, FALSE)
    /\ UNCHANGED <<variant, halted, PAUSED, BUTTON_A_WAS_PRESSED,
                   BUTTON_B_WAS_PRESSED, chan0_event, chan1_event, a_low,
                   b_low, image, rendered, gen, runTicks, manual, sampleA,
                   sampleB>>
    /\ UNCHANGED pendVars
    /\ UNCHANGED takeVars
    /\ UNCHANGED csVars
    /\ UNCHANGED b_held_since_running
    /\ Borrowing(timer_main_cs_borrows)

\* A TIMER0 handler that also advanced the game state.
TIMER0_advancing ==
    /\ variant = "timer" /\ unmasked /\ ~halted /\ Bounded /\ GAME_STATE.some
    /\ interrupts_enabled(in_cs)
    /\ GAME_STATE' = Some(next_state(GAME_STATE.matrix))
    /\ gen' = gen + 1
    /\ last' = Log("TIMER0", FALSE, FALSE, 1, 0, FALSE)
    /\ UNCHANGED <<variant, pc, halted, unmasked, cell, PAUSED,
                   BUTTON_A_WAS_PRESSED, BUTTON_B_WAS_PRESSED, chan0_event,
                   chan1_event, a_low, b_low, image, rendered, runTicks,
                   manual, sampleA, sampleB>>
    /\ UNCHANGED pendVars
    /\ UNCHANGED takeVars
    /\ UNCHANGED csVars
    /\ UNCHANGED b_held_since_running
    /\ Borrowing(TIMER0_borrows)

\* The TIMER0 handler: display.handle_display_event(), which multiplexes the
\* rows of the image the display already holds.
TIMER0 ==
    /\ variant = "timer" /\ unmasked /\ ~halted /\ interrupts_enabled(in_cs)
    /\ last' = Log("TIMER0", FALSE, FALSE, 0, 0, FALSE)
    /\ UNCHANGED <<variant, pc, halted, unmasked, cell, GAME_STATE, PAUSED,
                   BUTTON_A_WAS_PRESSED, BUTTON_B_WAS_PRESSED, chan0_event,
                   chan1_event, a_low, b_low, image, rendered, gen, runTicks,
                   manual, sampleA, sampleB>>
    /\ UNCHANGED pendVars
    /\ UNCHANGED takeVars
    /\ UNCHANGED csVars
    /\ UNCHANGED b_held_since_running
    /\ Borrowing(TIMER0_borrows)

\* The RTC0 handler: sample button a (toggle on its press edge), sample
\* button b (on its press edge, if paused, advance and show), reset the event.
RTC0 ==
    /\ variant = "timer" /\ unmasked /\ ~halted /\ Bounded
    /\ interrupts_enabled(in_cs)
    /\ LET a_pressed == a_low
           a_edge == cell["BUTTON_A"] /\ press_edge(a_pressed, BUTTON_A_WAS_PRESSED)
           paused1 == IF a_edge THEN toggle(PAUSED) ELSE PAUSED
           b_pressed == b_low
           b_edge == cell["BUTTON_B"] /\ press_edge(b_pressed, BUTTON_B_WAS_PRESSED)
           step == step_applies(b_edge, paused1) /\ GAME_STATE.some
           show == step /\ cell["DISPLAY"]
           stepped == IF step THEN Some(next_state(GAME_STATE.matrix))
                              ELSE GAME_STATE
       IN  /\ BUTTON_A_WAS_PRESSED' =
                  IF cell["BUTTON_A"]
                  THEN latch_after(a_pressed, BUTTON_A_WAS_PRESSED)
                  ELSE BUTTON_A_WAS_PRESSED
           /\ BUTTON_B_WAS_PRESSED' =
                  IF cell["BUTTON_B"]
                  THEN latch_after(b_pressed, BUTTON_B_WAS_PRESSED)
                  ELSE BUTTON_B_WAS_PRESSED
           /\ PAUSED' = paused1
           /\ GAME_STATE' = stepped
           /\ image' = IF show THEN rtc0_image(GAME_STATE.matrix, stepped.matrix)
                               ELSE image
           /\ rendered' = IF show THEN TRUE ELSE (rendered /\ ~step)
           /\ gen' = gen + Bit(step)
           /\ manual' = manual + Bit(b_pressed /\ ~sampleB /\ paused1)
           /\ sampleA' = a_pressed
           /\ sampleB' = b_pressed
           /\ b_held_since_running' =
                  (b_held_since_running \/ (b_pressed /\ ~sampleB /\ ~paused1))
           /\ last' = Log("RTC0", a_pressed /\ ~sampleA, b_pressed /\ ~sampleB,
                          Bit(step), Bit(show), step /\ ~rendered)
    /\ UNCHANGED <<variant, pc, halted, unmasked, cell, chan0_event,
                   chan1_event, a_low, b_low, runTicks>>
    /\ UNCHANGED pendVars
    /\ UNCHANGED takeVars
    /\ UNCHANGED csVars
    /\ Borrowing(RTC0_borrows(cell["BUTTON_A"], a_low, BUTTON_A_WAS_PRESSED,
                              cell["BUTTON_B"], b_low, BUTTON_B_WAS_PRESSED,
                              PAUSED, GAME_STATE.some))

\* The RTC1 handler: if not paused, advance the state and show it; then
\* reset the compare event and clear the counter.
RTC1 ==
    /\ variant = "timer" /\ unmasked /\ ~halted /\ Bounded
    /\ interrupts_enabled(in_cs)
    /\ LET adv == cell["DISPLAY"] /\ GAME_STATE.some /\ tick_advances(PAUSED)
           advanced == IF adv THEN Some(next_state(GAME_STATE.matrix))
                              ELSE GAME_STATE
       IN  /\ GAME_STATE' = advanced
           /\ image' = IF adv THEN rtc1_image(GAME_STATE.matrix, advanced.matrix)
                              ELSE image
           /\ rendered' = (adv \/ rendered)
           /\ gen' = gen + Bit(adv)
           /\ runTicks' = runTicks + Bit(~PAUSED)
           /\ last' = Log("RTC1", FALSE, FALSE, Bit(adv), Bit(adv),
                          adv /\ ~rendered)
    /\ UNCHANGED <<variant, pc, halted, unmasked, cell, PAUSED,
                   BUTTON_A_WAS_PRESSED, BUTTON_B_WAS_PRESSED, chan0_event,
                   chan1_event, a_low, b_low, manual, sampleA, sampleB>>
    /\ UNCHANGED pendVars
    /\ UNCHANGED takeVars
    /\ UNCHANGED csVars
    /\ UNCHANGED b_held_since_running
    /\ Borrowing(RTC1_borrows(cell["DISPLAY"], GAME_STATE.some))

\* ------------------------------------------------- grids for next_state
\* The grid whose live cells are the positions in `live`.
GridOf(live) == [r \in Idx |-> [c \in Idx |-> <<r, c>> \in live]]

\* Top-left corners of the 3x3 blocks the input grids are drawn from: the four
\* corners of the matrix and its centre; together they cover every cell.
BlockOrigins == {<<0, 0>>, <<0, 2>>, <<2, 0>>, <<2, 2>>, <<1, 1>>}

BlockCells(o) == {<<o[1] + dr, o[2] + dc>> : dr \in 0 .. 2, dc \in 0 .. 2}

\* Every grid whose live cells lie inside one block: every neighbour count
\* from 0 to 8 occurs, at corner, edge and interior cells.
TestGrids == {GridOf(live) : live \in UNION {SUBSET BlockCells(o) : o \in BlockOrigins}}

\* The simple build started on a caller-supplied pattern.
InitLife ==
    /\ variant = "simple"
    /\ pc = "loop"
    /\ halted = FALSE
    /\ unmasked = FALSE
    /\ cell = [n \in CellNames |-> FALSE]
    /\ GAME_STATE \in {Some(m) : m \in TestGrids}
    /\ PAUSED = FALSE
    /\ BUTTON_A_WAS_PRESSED = FALSE
    /\ BUTTON_B_WAS_PRESSED = FALSE
    /\ chan0_event = FALSE
    /\ chan1_event = FALSE
    /\ a_low = FALSE
    /\ b_low = FALSE
    /\ image = Blank
    /\ rendered = FALSE
    /\ gen = 0
    /\ runTicks = 0
    /\ manual = 0
    /\ sampleA = FALSE
    /\ sampleB = FALSE
    /\ last = NoLog
    /\ pendA = 0
    /\ pendB = 0
    /\ peripherals_taken = (variant # "timer")
    /\ take_log = << >>
    /\ in_cs = FALSE
    /\ render_paused = FALSE
    /\ b_held_since_running = FALSE
    /\ borrow_flag = [c \in RefCells |-> 0]
    /\ borrow_panicked = FALSE

NextLife == simple_main_loop

\* next_state applied, generation after generation, to every input grid.
SpecLife == InitLife /\ [][NextLife]_vars

\* ------------------------------------------------------------------- Next
Next ==
    \/ PressA
    \/ ReleaseA
    \/ PressB
    \/ ReleaseB
    \/ simple_main_loop
    \/ gpio_main_cs1
    \/ gpio_main_cs2
    \/ gpio_main_loop
    \/ GPIOTE
    \/ timer_main_take
    \/ timer_main_cs
    \/ TIMER0
    \/ RTC0
    \/ RTC1

Spec == Init /\ [][Next]_vars

\* The program with the critical section of the gpio loop followed in two
\* steps, so that a handler could run between them if interrupts were on.
NextFine ==
    \/ PressA
    \/ ReleaseA
    \/ PressB
    \/ ReleaseB
    \/ simple_main_loop
    \/ gpio_main_cs1
    \/ gpio_main_cs2
    \/ gpio_loop_enter_show
    \/ gpio_loop_advance_exit
    \/ GPIOTE
    \/ timer_main_take
    \/ timer_main_cs
    \/ TIMER0
    \/ RTC0
    \/ RTC1

SpecFine == Init /\ [][NextFine]_vars

\* The same program under fair scheduling. A handler whose interrupt is
\* pending is entered once interrupts are enabled (weak fairness: it stays
\* pending until served); main() leaves a critical section it is in (weak
\* fairness) and takes its next step whenever the handlers have returned,
\* which happens again and again however often buttons are pressed (strong
\* fairness).
SpecFair ==
    /\ Init /\ [][NextFine]_vars
    /\ WF_vars(GPIOTE)
    /\ WF_vars(gpio_main_cs1)
    /\ SF_vars(gpio_main_cs2)
    /\ SF_vars(gpio_loop_enter_show)
    /\ WF_vars(gpio_loop_advance_exit)

\* The program together with further calls of MyBoard::take().
NextTake == Next \/ take_call

SpecTake == Init /\ [][NextTake]_vars

TypeOK ==
    /\ variant \in Variants
    /\ pc \in {"boot", "start", "cs1", "loop", "shown"}
    /\ halted \in BOOLEAN /\ unmasked \in BOOLEAN
    /\ cell \in [CellNames -> BOOLEAN]
    /\ GAME_STATE.some \in BOOLEAN
    /\ GAME_STATE.matrix \in [Idx -> [Idx -> BOOLEAN]]
    /\ PAUSED \in BOOLEAN
    /\ image \in [Idx -> [Idx -> {0, 1}]]
    /\ gen \in 0 .. MaxGen /\ runTicks \in 0 .. MaxGen /\ manual \in 0 .. MaxGen

\* ================================================================== claims
RECURSIVE Iterate(_, _)
\* The transition function applied k times.
Iterate(matrix, k) == IF k = 0 THEN matrix ELSE Iterate(next_state(matrix), k - 1)

\* The step just taken was an advance-and-render tick: the RTC1 handler, or
\* one iteration of the main loop.
TickStep == last'.handler \in {"main", "RTC1"}

\* The step just taken was a run of a button handler.
ButtonStep == last'.handler \in {"GPIOTE", "RTC0"}

\* C1: while PauseFlag is Paused, an advance-and-render tick (RTC1, or one
\* iteration of the main loop) leaves the Grid unchanged and calls the
\* transition function zero times; hence so do N consecutive ones.
C1_PausedTicksKeepGrid ==
    [][(TickStep /\ PAUSED) => (GAME_STATE' = GAME_STATE /\ last'.steps = 0)]_vars

C1_Witness ==
    /\ last.handler \in {"main", "RTC1"} /\ PAUSED /\ GAME_STATE.some
    /\ gen >= 1

\* C2: a press edge of button b that reaches a handler (GPIOTE or RTC0) changes
\* the Grid to exactly next(Grid), by one call of the transition function,
\* when the PauseFlag the handler reads is Paused, and leaves the Grid
\* unchanged when it is Running.
C2_StepExactlyOnce ==
    [][(ButtonStep /\ last'.b_edge) =>
          IF PAUSED'
          THEN /\ GAME_STATE.some
               /\ GAME_STATE' = Some(next_state(GAME_STATE.matrix))
               /\ last'.steps = 1
          ELSE /\ GAME_STATE' = GAME_STATE
               /\ last'.steps = 0]_vars

\* C3: a press edge of button a alone (no edge of button b in the same handler
\* run) leaves the Grid as it was, whatever the PauseFlag, in GPIOTE and RTC0.
C3_ToggleKeepsGrid ==
    [][(ButtonStep /\ last'.a_edge /\ ~last'.b_edge) =>
          (GAME_STATE' = GAME_STATE /\ last'.steps = 0)]_vars

C3_Witness ==
    /\ last.handler \in {"GPIOTE", "RTC0"} /\ last.a_edge /\ ~last.b_edge
    /\ GAME_STATE.some /\ PAUSED /\ gen >= 1

\* C4: whenever the GPIOTE handler has taken its step branch (button b event
\* with the flag paused), GAME_STATE held Some and the device has not halted.
C4_HandlerFindsSome ==
    (last.handler = "GPIOTE" /\ last.b_edge /\ PAUSED) =>
        (GAME_STATE.some /\ ~halted)

\* C5: with no step applied so far, the number of next_state calls equals the
\* number of ticks fired while Running, and the Grid is the initial pattern
\* advanced that many times.
C5_OneGenerationPerRunningTick ==
    (GAME_STATE.some /\ manual = 0) =>
        /\ gen = runTicks
        /\ GAME_STATE.matrix = Iterate(initial_state_matrix, runTicks)

C5_Witness == runTicks >= 3 /\ manual = 0 /\ GAME_STATE.some

\* C6: PauseFlag starts as Running, and a step changes it exactly when it is a
\* button handler run that a press edge of button a reached, which flips it.
C6_OnlyToggleWritesPaused ==
    /\ PAUSED = FALSE
    /\ [][PAUSED' = (IF ButtonStep /\ last'.a_edge THEN ~PAUSED ELSE PAUSED)]_vars

C6_Witness ==
    /\ last.handler \in {"GPIOTE", "RTC0"} /\ last.a_edge /\ ~PAUSED
    /\ gen >= 1 /\ manual >= 1

\* C7: in the polled variant an RTC0 run flips PauseFlag iff button a is low on
\* this run and was not low on the previous run (never low before the first),
\* each latch ends equal to the raw sample, and a step is taken only on such a
\* press edge of button b; so a held button toggles once and a release never.
C7_EdgeIffPressedAndNotBefore ==
    [][(last'.handler = "RTC0") =>
          /\ (PAUSED' # PAUSED) <=> (a_low /\ ~sampleA)
          /\ BUTTON_A_WAS_PRESSED' = a_low
          /\ BUTTON_B_WAS_PRESSED' = b_low
          /\ (last'.steps = 1) <=> (b_low /\ ~sampleB /\ PAUSED')]_vars

\* Button a is held over two RTC0 runs in a row, after an earlier press and
\* release: the second run reports no edge.
C7_Witness ==
    /\ last.handler = "RTC0" /\ sampleA /\ a_low /\ ~last.a_edge
    /\ BUTTON_A_WAS_PRESSED /\ PAUSED /\ manual >= 1

\* C8 (as claimed): every advance-and-render tick shows the Grid on the
\* display: the polled RTC1 handler the Grid it leaves, the blocking loop the
\* Grid it finds.
C8_EveryTickRenders ==
    [][TickStep =>
          /\ last'.shows = 1
          /\ image' = int_matrix(IF variant = "timer" THEN GAME_STATE'.matrix
                                                       ELSE GAME_STATE.matrix)]_vars

\* C8 (amended): a tick shows the Grid except the polled RTC1 handler while
\* Paused, which calls no show and leaves the display image as it was; RTC1
\* while Running shows the newly advanced Grid, and a loop iteration of the
\* blocking builds shows the Grid it finds, Running or Paused.
C8_TickRendersUnlessPolledPaused ==
    [][TickStep =>
          IF variant = "timer"
          THEN IF PAUSED
               THEN last'.shows = 0 /\ image' = image
               ELSE last'.shows = 1 /\ image' = int_matrix(GAME_STATE'.matrix)
          ELSE last'.shows = 1 /\ image' = int_matrix(GAME_STATE.matrix)]_vars

C8_Witness ==
    /\ variant = "timer" /\ last.handler = "RTC1" /\ ~PAUSED
    /\ last.shows = 1 /\ gen >= 2

\* C9: in the edge-triggered build no step advances a generation that has not
\* been shown on the display.
C9_NoGenerationSkipped == (variant = "gpio") => ~last.skipped

\* C10 (as claimed): a handler run that applies a step while Paused shows the
\* newly advanced Grid in that same run, in both input variants.
C10_StepRefreshesInHandler ==
    [][(ButtonStep /\ last'.steps = 1) =>
          (last'.shows = 1 /\ image' = int_matrix(GAME_STATE'.matrix))]_vars

\* C10 (amended): the polled RTC0 handler shows the newly advanced Grid in the
\* run that applies the step; the edge-triggered GPIOTE handler calls no show
\* and leaves the display image as it was.
C10_StepRefreshPerVariant ==
    [][(ButtonStep /\ last'.steps = 1) =>
          IF last'.handler = "RTC0"
          THEN last'.shows = 1 /\ image' = int_matrix(GAME_STATE'.matrix)
          ELSE last'.shows = 0 /\ image' = image]_vars

C10_Witness ==
    /\ last.handler = "RTC0" /\ last.steps = 1 /\ last.shows = 1 /\ PAUSED
    /\ image = int_matrix(GAME_STATE.matrix) /\ gen >= 2

\* C11: in the edge-triggered build every press is handled once: a GPIOTE run
\* applies as many toggles as button a was pressed since the previous run, and
\* evaluates as many step requests as button b was pressed since then.
C11_EveryPressHandledOnce ==
    [][(last'.handler = "GPIOTE") =>
          /\ Bit(PAUSED' # PAUSED) = pendA
          /\ Bit(last'.b_edge) = pendB]_vars

\* C12: a run of the TIMER0 handler leaves GAME_STATE, PAUSED and both
\* debounce latches as they were.
C12_Timer0TouchesNoState ==
    [][(last'.handler = "TIMER0") =>
          UNCHANGED <<GAME_STATE, PAUSED, BUTTON_A_WAS_PRESSED,
                      BUTTON_B_WAS_PRESSED>>]_vars

C12_Witness ==
    /\ last.handler = "TIMER0" /\ GAME_STATE.some /\ PAUSED
    /\ BUTTON_A_WAS_PRESSED /\ gen >= 1

\* The live cells among the in-bounds positions adjacent to (r, c).
LiveAround(matrix, r, c) ==
    Cardinality({p \in Idx \X Idx :
                    /\ p # <<r, c>>
                    /\ p[1] - r \in -1 .. 1
                    /\ p[2] - c \in -1 .. 1
                    /\ matrix[p[1]][p[2]]})

LiveCells(matrix) == {p \in Idx \X Idx : matrix[p[1]][p[2]]}

HorizontalBlinker == GridOf({<<2, 1>>, <<2, 2>>, <<2, 3>>})

VerticalBlinker == GridOf({<<1, 2>>, <<2, 2>>, <<3, 2>>})

\* C13: after next_state, cell (r, c) is alive iff in the grid before it was
\* alive with 2 or 3 live cells among its in-bounds neighbours, or dead with
\* exactly 3; nothing outside the 5x5 bounds counts.
C13_NextStateRule ==
    [][(last'.handler = "main") =>
          \A r \in Idx, c \in Idx :
              GAME_STATE'.matrix[r][c] <=>
                  LET n == LiveAround(GAME_STATE.matrix, r, c)
                  IN  IF GAME_STATE.matrix[r][c] THEN n \in {2, 3} ELSE n = 3]_vars

\* The L of three cells in the top-left corner: the corner cell survives with
\* two neighbours and (1, 1) is born with three.
C13_Witness ==
    /\ gen = 1
    /\ image = int_matrix(GridOf({<<0, 0>>, <<0, 1>>, <<1, 0>>}))
    /\ GAME_STATE.matrix = GridOf({<<0, 0>>, <<0, 1>>, <<1, 0>>, <<1, 1>>})

\* C14: a grid with exactly one live cell, at a corner or anywhere else,
\* becomes the all-dead grid.
C14_LoneCellDies ==
    [][(last'.handler = "main" /\ Cardinality(LiveCells(GAME_STATE.matrix)) = 1) =>
          GAME_STATE'.matrix = AllDead]_vars

C14_Witness ==
    /\ gen = 1
    /\ image = int_matrix(GridOf({<<4, 4>>}))
    /\ GAME_STATE.matrix = AllDead

\* C15: the horizontal blinker (row 2, columns 1 to 3) becomes exactly the
\* vertical blinker (column 2, rows 1 to 3).
C15_BlinkerTurns ==
    [][(last'.handler = "main" /\ GAME_STATE.matrix = HorizontalBlinker) =>
          GAME_STATE'.matrix = VerticalBlinker]_vars

C15_Witness ==
    /\ gen = 1
    /\ image = int_matrix(HorizontalBlinker)
    /\ GAME_STATE.matrix = VerticalBlinker

\* C16: of the calls of MyBoard::take made so far, the first returned Some and
\* every later one returned None.
C16_TakeSucceedsOnce ==
    \A i \in 1 .. Len(take_log) : take_log[i] <=> (i = 1)

C16_Witness == Len(take_log) >= 3 /\ ~take_log[3] /\ gen >= 1

\* C17: no interrupt handler runs while main() is inside a critical section;
\* hence, between the show and the advance of one iteration of the gpio loop,
\* the Grid is the one just shown and PAUSED is as it was at the show.
C17_CriticalSectionAtomic ==
    /\ [](pc = "shown" =>
            /\ in_cs
            /\ PAUSED = render_paused
            /\ GAME_STATE.some => image = int_matrix(GAME_STATE.matrix))
    /\ [][(last'.handler \in {"GPIOTE", "RTC0", "RTC1", "TIMER0"}) => ~in_cs]_vars

\* Both buttons were pressed while main() is between show and advance: the
\* events are latched and GPIOTE is held off.
C17_Witness ==
    /\ pc = "shown" /\ in_cs /\ chan0_event /\ chan1_event /\ unmasked
    /\ gen >= 1

\* The five Option cells of the polled build besides GAME_STATE.
TimerCells == CellNames \ {"GPIO"}

AllCellsSome == GAME_STATE.some /\ \A n \in TimerCells : cell[n]

NoCellSome == ~GAME_STATE.some /\ \A n \in TimerCells : ~cell[n]

\* C18: in the polled build the interrupts are unmasked and the six shared
\* cells are filled in one startup step: whenever the interrupts are unmasked,
\* and after every run of TIMER0, RTC0 or RTC1, all six cells hold Some; and
\* the only step that changes the mask or whether a cell holds Some is the
\* one that takes all six from None to Some, so each cell is written once.
C18_CellsSetInOneSection ==
    /\ [](variant = "timer" =>
            /\ unmasked => AllCellsSome
            /\ last.handler \in {"TIMER0", "RTC0", "RTC1"} => AllCellsSome)
    /\ [][(/\ variant = "timer"
           /\ \/ cell' # cell
              \/ GAME_STATE'.some # GAME_STATE.some
              \/ unmasked' # unmasked)
          => /\ ~unmasked /\ NoCellSome
             /\ unmasked' /\ AllCellsSome'
             /\ last'.handler = "startup"]_vars

C18_Witness ==
    /\ variant = "timer" /\ unmasked /\ AllCellsSome
    /\ last.handler = "RTC0" /\ last.steps = 1 /\ gen >= 2
    /\ runTicks >= 1
\* C19: a handler run (GPIOTE, or one RTC0 tick) that sees a press edge of
\* both buttons toggles first and evaluates the step against the toggled
\* flag: from Running it ends Paused with the Grid advanced by exactly one
\* generation, from Paused it ends Running with the Grid unchanged.
C19_ToggleThenStep ==
    [][(ButtonStep /\ last'.a_edge /\ last'.b_edge)
       => IF ~PAUSED
          THEN /\ PAUSED'
               /\ GAME_STATE.some
               /\ GAME_STATE' = Some(next_state(GAME_STATE.matrix))
               /\ last'.steps = 1
               /\ gen' = gen + 1
          ELSE /\ ~PAUSED'
               /\ GAME_STATE' = GAME_STATE
               /\ last'.steps = 0
               /\ gen' = gen]_vars
\* C20: in the polled build every step that advances the Grid (RTC1 while
\* Running, RTC0 on a press of b while Paused) shows the new Grid in that same
\* step, so in every state after the first advance the image last given to the
\* display is the rendering of the current Grid.
C20_DisplayFollowsGrid ==
    /\ []((variant = "timer" /\ gen >= 1) =>
            /\ GAME_STATE.some
            /\ image = int_matrix(GAME_STATE.matrix))
    /\ [][(variant = "timer" /\ (gen' # gen \/ GAME_STATE' # GAME_STATE)
                             /\ last'.handler # "startup")
          => /\ last'.handler \in {"RTC0", "RTC1"}
             /\ gen' = gen + 1
             /\ last'.shows = 1
             /\ image' = int_matrix(GAME_STATE'.matrix)]_vars

C20_Witness ==
    /\ variant = "timer" /\ last.handler = "TIMER0"
    /\ manual >= 1 /\ runTicks >= 1 /\ gen >= 2
    /\ image = int_matrix(GAME_STATE.matrix) /\ image # Blank
\* C21: in every build the initial pattern (generation 0) is rendered to the
\* display before the Grid is advanced for the first time: the step that
\* makes the first generation either finds the initial pattern on the
\* display, or is a loop iteration of main() that shows it before advancing.
C21_InitialPatternShownFirst ==
    [][(gen = 0 /\ gen' = 1)
       => /\ ~last'.skipped
          /\ \/ image = int_matrix(initial_state_matrix)
             \/ /\ last'.handler = "main" /\ last'.shows = 1
                /\ image' = int_matrix(initial_state_matrix)]_vars
\* C22: in the edge-triggered build under fair scheduling every latched
\* button event is eventually handled (both event registers are cleared by a
\* run of the handler), and while Running the Grid keeps advancing: from any
\* Running state with k generations made, a later state has more than k, or
\* the game has been paused. Both are followed up to the bound on next_state
\* invocations.
C22_EventsHandledGridAdvances ==
    /\ (GPIOTE_pending /\ Bounded) ~> (~(chan0_event \/ chan1_event) \/ ~Bounded)
    /\ \A k \in 0 .. MaxGen :
          (variant = "gpio" /\ ~PAUSED /\ gen = k /\ Bounded)
              ~> (gen > k \/ PAUSED \/ ~Bounded)
\* C23: in the polled build a press of b whose edge is sampled while Running
\* sets the b latch and has no effect; while b stays held from then on, no
\* RTC0 run makes a step, whether or not button a has paused the game since,
\* and no step taken while Paused changes the Grid. More generally an RTC0 run
\* that finds b low with the latch set makes no step.
C23_HeldPressNeverSteps ==
    /\ [](b_held_since_running => (b_low /\ BUTTON_B_WAS_PRESSED))
    /\ [][(~b_held_since_running /\ b_held_since_running')
          => /\ last'.handler = "RTC0" /\ last'.b_edge
             /\ last'.steps = 0 /\ GAME_STATE' = GAME_STATE]_vars
    /\ [][(b_held_since_running /\ last'.handler = "RTC0")
          => /\ last'.steps = 0 /\ last'.shows = 0
             /\ GAME_STATE' = GAME_STATE /\ gen' = gen
             /\ BUTTON_B_WAS_PRESSED']_vars
    /\ [][(b_held_since_running /\ PAUSED /\ PAUSED')
          => (GAME_STATE' = GAME_STATE /\ gen' = gen)]_vars
    /\ [][(last'.handler = "RTC0" /\ BUTTON_B_WAS_PRESSED /\ b_low)
          => (last'.steps = 0 /\ GAME_STATE' = GAME_STATE)]_vars

C23_Witness ==
    /\ variant = "timer" /\ b_held_since_running /\ PAUSED
    /\ last.handler = "RTC0" /\ ~last.a_edge /\ ~last.b_edge
    /\ last.steps = 0 /\ a_low /\ b_low /\ gen >= 1
\* C24: under every interleaving of main() and the interrupt handlers no
\* borrow of a RefCell conflicts with a live one, so nothing halts on a borrow
\* panic: every handler run starts with no borrow live, and the only borrow
\* live between steps is main()'s mutable borrow of GAME_STATE inside the
\* critical section of the gpio loop (or the borrows a GPIOTE run held when
\* its unwrap of GAME_STATE panicked).
C24_NoBorrowConflict ==
    /\ [](~borrow_panicked)
    /\ [](\A c \in RefCells :
            borrow_flag[c] # 0 =>
                \/ c = "GAME_STATE" /\ in_cs /\ pc = "shown" /\ borrow_flag[c] = -1
                \/ halted /\ variant = "gpio")
    /\ [][(last'.handler \in {"GPIOTE", "RTC0", "RTC1", "TIMER0"})
          => (\A c \in RefCells : borrow_flag[c] = 0)]_vars

C24_Witness ==
    /\ variant = "gpio" /\ pc = "shown" /\ borrow_flag["GAME_STATE"] = -1
    /\ unmasked /\ chan0_event /\ chan1_event /\ ~PAUSED
    /\ gen >= 1 /\ manual >= 1 /\ ~borrow_panicked
====
